---- MODULE Spec2Model ----
(***************************************************************************)
(* Model of pz5.py: a PyQt6 client of the Open Food Facts REST API.        *)
(*                                                                         *)
(*   extract_kcal, format_product_details     pure functions (operators)   *)
(*   MainWindow                               the window's state machine   *)
(*                                                                         *)
(* JSON values that the code reads with dict.get are modelled as TLA+      *)
(* functions whose DOMAIN is the set of keys present.  A JSON value that   *)
(* may be null where an object or array is expected is tagged: JNull,      *)
(* JObject(m), JArray(s).  A text block is the sequence of its lines; the  *)
(* source joins them with "\n" and no line of the model holds a newline.   *)
(* Cyrillic literals of the source are transliterated (the parser reads    *)
(* ASCII only); the original is quoted next to each.                       *)
(***************************************************************************)
EXTENDS Integers, Sequences, FiniteSets, TLC

VARIABLES
    mode,              \* self.mode_combo.currentText()
    query_text,        \* self.query_edit.text()
    current_products,  \* self.current_products
    table,             \* self.table: the sequence of its rows
    table_visible,     \* self.table.isVisible()
    details_text,      \* self.details_text: the lines shown (<<>> when cleared)
    dialogs,           \* QMessageBox dialogs raised by the handler that ran last
    requests,          \* HTTP requests issued by the handler that ran last
    format_calls,      \* arguments format_product_details got in that handler
    last,              \* the handler that ran last and the input it was given
    alive,             \* FALSE once a slot let an exception escape into Qt
    fn_arg,            \* argument of the function under check (function specs)
    fn_ret             \* its outcome: Pending, Return(v) or Raise(e)

vars == <<mode, query_text, current_products, table, table_visible, details_text,
          dialogs, requests, format_calls, last, alive, fn_arg, fn_ret>>

gui_vars == <<mode, query_text, current_products, table, table_visible,
              details_text, dialogs, requests, format_calls, last, alive>>

fn_vars == <<fn_arg, fn_ret>>

-----------------------------------------------------------------------------
(* Bounds *)

\* nutrient values are the numbers 0..MaxNum
MaxNum == 1

\* a search response lists at most MaxProducts products
MaxProducts == 2

\* the query box holds at most MaxQueryLen characters
MaxQueryLen == 1

-----------------------------------------------------------------------------
(* Python values *)

\* None, as dict.get returns it for a missing key and as JSON null decodes,
\* where a number is expected
None == -1

\* None where a string is expected
NoneStr == "<None>"

JNull == [type |-> "null"]

JObject(m) == [type |-> "object", items |-> m]

JArray(s) == [type |-> "array", items |-> s]

EmptyDict == <<>>

Pending == [exc |-> "<pending>"]

Return(v) == [exc |-> "", value |-> v]

Raise(e) == [exc |-> e]

Returned(r) == r.exc = ""

Raised(r) == r.exc \notin {"", "<pending>"}

\* truth value of a number or None
Truthy(v) == v /= None /\ v /= 0

\* a or b
Or(a, b) == IF Truthy(a) THEN a ELSE b

\* truth value of a str or None
TruthyStr(s) == s /= NoneStr /\ s /= ""

\* a or b, on strings
OrStr(a, b) == IF TruthyStr(a) THEN a ELSE b

\* d.get(key)
Get(d, key) == IF key \in DOMAIN d THEN d[key] ELSE None

\* d.get(key), a string expected
GetStr(d, key) == IF key \in DOMAIN d THEN d[key] ELSE NoneStr

\* str(v) of a number
Str(v) == ToString(v)

-----------------------------------------------------------------------------
(* extract_kcal *)

SrcKeys == {"energy-kcal_100g", "energy-kcal_value", "proteins_100g", "fat_100g",
            "carbohydrates_100g", "energy-kcal_serving", "proteins_serving",
            "fat_serving", "carbohydrates_serving"}

OutKeys == {"kcal_100g", "protein_100g", "fat_100g", "carbs_100g",
            "kcal_serving", "protein_serving", "fat_serving", "carbs_serving"}

\* the source key each output key is read from (kcal_100g: the primary one)
SourceKey(k) ==
    CASE k = "kcal_100g" -> "energy-kcal_100g"
      [] k = "protein_100g" -> "proteins_100g"
      [] k = "fat_100g" -> "fat_100g"
      [] k = "carbs_100g" -> "carbohydrates_100g"
      [] k = "kcal_serving" -> "energy-kcal_serving"
      [] k = "protein_serving" -> "proteins_serving"
      [] k = "fat_serving" -> "fat_serving"
      [] k = "carbs_serving" -> "carbohydrates_serving"

\* the dict literal `data` of extract_kcal
extract_data(items) ==
    [k \in OutKeys |->
        IF k = "kcal_100g"
        THEN Or(Get(items, "energy-kcal_100g"), Get(items, "energy-kcal_value"))
        ELSE Get(items, SourceKey(k))]

\* faulty variant: a missing value defaults to 0
extract_kcal_zero_default(nutriments) ==
    IF nutriments = JNull
    THEN Raise("AttributeError")
    ELSE LET data == extract_data(nutriments.items)
         IN  Return([k \in OutKeys |-> IF data[k] = None THEN 0 ELSE data[k]])

\* extract_kcal(nutriments): nutriments.get raises AttributeError on None
extract_kcal(nutriments) ==
    IF nutriments = JNull
    THEN Raise("AttributeError")
    ELSE LET data == extract_data(nutriments.items)
         IN  Return([k \in {x \in OutKeys : data[x] /= None} |-> data[k]])

-----------------------------------------------------------------------------
(* format_product_details *)

\* the placeholder dash (U+2014 in the source)
Dash == "-"

HdrKeys == {"product_name", "brands", "code", "quantity", "serving_size"}

\* the seven lines every block starts with (source labels: "Название: ",
\* "Бренд: ", "Штрихкод: ", "Упаковка: ", "Порция: ", "", "Питательные вещества:")
HeaderLines(product) ==
    LET name == OrStr(GetStr(product, "product_name"), Dash)
        brand == OrStr(GetStr(product, "brands"), Dash)
        code == OrStr(GetStr(product, "code"), Dash)
        quantity == OrStr(GetStr(product, "quantity"), Dash)
        serving == OrStr(GetStr(product, "serving_size"), Dash)
    IN  << "Nazvanie: " \o name,
           "Brend: " \o brand,
           "Shtrihkod: " \o code,
           "Upakovka: " \o quantity,
           "Porciya: " \o serving,
           "",
           "Pitatelnye veshchestva:" >>

\* "  данные о БЖУ не найдены"
NoDataLine == "  dannye o BZhU ne najdeny"

\* "На порцию:"
ServingHeader == "Na porciyu:"

\* the label of each nutrient line ("  Калории на 100 г: ", "  Белок на 100 г: ",
\* "  Жиры на 100 г: ", "  Углеводы на 100 г: ", "  Калории на порцию: ", ...)
Label(k) ==
    CASE k = "kcal_100g" -> "  Kalorii na 100 g: "
      [] k = "protein_100g" -> "  Belok na 100 g: "
      [] k = "fat_100g" -> "  Zhiry na 100 g: "
      [] k = "carbs_100g" -> "  Uglevody na 100 g: "
      [] k = "kcal_serving" -> "  Kalorii na porciyu: "
      [] k = "protein_serving" -> "  Belok na porciyu: "
      [] k = "fat_serving" -> "  Zhiry na porciyu: "
      [] k = "carbs_serving" -> "  Uglevody na porciyu: "

\* if k in nutr: lines.append(f"<label>{nutr[k]}")
LineIfPresent(nutr, k) ==
    IF k \in DOMAIN nutr THEN << Label(k) \o Str(nutr[k]) >> ELSE << >>

\* k.endswith("_serving")
EndsWithServing(k) ==
    k \in {"kcal_serving", "protein_serving", "fat_serving", "carbs_serving"}

\* faulty variant: the per-serving header is appended without the any(...) guard
ServingLines_unguarded(nutr) ==
    << "", ServingHeader >>
        \o LineIfPresent(nutr, "kcal_serving")
        \o LineIfPresent(nutr, "protein_serving")
        \o LineIfPresent(nutr, "fat_serving")
        \o LineIfPresent(nutr, "carbs_serving")

\* the block any(k.endswith("_serving") ...) guards
ServingLines(nutr) ==
    IF \E k \in DOMAIN nutr : EndsWithServing(k)
    THEN << "", ServingHeader >>
            \o LineIfPresent(nutr, "kcal_serving")
            \o LineIfPresent(nutr, "protein_serving")
            \o LineIfPresent(nutr, "fat_serving")
            \o LineIfPresent(nutr, "carbs_serving")
    ELSE << >>

\* faulty variant: "no data" is decided by the calories alone
NutrientLines_kcal_only(nutr) ==
    IF "kcal_100g" \notin DOMAIN nutr
    THEN << NoDataLine >>
    ELSE LineIfPresent(nutr, "kcal_100g")
            \o LineIfPresent(nutr, "protein_100g")
            \o LineIfPresent(nutr, "fat_100g")
            \o LineIfPresent(nutr, "carbs_100g")
            \o ServingLines(nutr)

\* faulty variant: the fat line is appended before the protein line
NutrientLines_swapped(nutr) ==
    IF DOMAIN nutr = {}
    THEN << NoDataLine >>
    ELSE LineIfPresent(nutr, "kcal_100g")
            \o LineIfPresent(nutr, "fat_100g")
            \o LineIfPresent(nutr, "protein_100g")
            \o LineIfPresent(nutr, "carbs_100g")
            \o ServingLines(nutr)

\* the lines appended after the header, given the extracted summary
NutrientLines(nutr) ==
    IF DOMAIN nutr = {}
    THEN << NoDataLine >>
    ELSE LineIfPresent(nutr, "kcal_100g")
            \o LineIfPresent(nutr, "protein_100g")
            \o LineIfPresent(nutr, "fat_100g")
            \o LineIfPresent(nutr, "carbs_100g")
            \o ServingLines(nutr)

\* product.get("nutriments", {})
NutrimentsOf(product) ==
    IF "nutriments" \in DOMAIN product THEN product["nutriments"] ELSE JObject(EmptyDict)

\* format_product_details(product): the lines of the text, or the exception
\* extract_kcal lets through
format_product_details(product) ==
    LET nutr == extract_kcal(NutrimentsOf(product))
    IN  IF Raised(nutr)
        THEN nutr
        ELSE Return(HeaderLines(product) \o NutrientLines(nutr.value))

-----------------------------------------------------------------------------
(* Inputs of the function specifications *)

Nums == 0 .. MaxNum

NutrVals == {None} \cup Nums

EnergyKeys == {"energy-kcal_100g", "energy-kcal_value"}

\* the maps over the key set D whose energy keys take values in EV and
\* whose other keys take values in OV
MapsOver(D, EV, OV) ==
    {m \in [D -> EV \cup OV] :
        \A k \in D : IF k \in EnergyKeys THEN m[k] \in EV ELSE m[k] \in OV}

\* the nutrient maps extract_kcal is applied to: any subset of the nine source
\* keys; the two energy spellings take every value, the other keys None, the
\* least and the greatest number
NutrimentMaps == UNION {MapsOver(D, NutrVals, {None, 0, MaxNum}) : D \in SUBSET SrcKeys}

\* the nutrient maps format_product_details is applied to
FormatMaps == UNION {MapsOver(D, NutrVals, {0, MaxNum}) : D \in SUBSET SrcKeys}

\* the value a header key holds when it holds a non-empty string
HdrText(k) == "<" \o k \o ">"

\* the header part of a product: each key absent, None, "" or a string
HeaderDicts ==
    UNION {{h \in [D -> {NoneStr, ""} \cup {HdrText(k) : k \in D}] :
                \A k \in D : h[k] \in {NoneStr, "", HdrText(k)}} : D \in SUBSET HdrKeys}

FullHeader == [k \in HdrKeys |-> HdrText(k)]

WithNutriments(h, n) == h @@ ("nutriments" :> n)

\* the products format_product_details is applied to: every header with a few
\* nutriments values, and every nutrient map under one header
Products ==
    HeaderDicts
    \cup {WithNutriments(h, n) : h \in HeaderDicts,
            n \in {JNull, JObject(EmptyDict),
                   JObject([k \in SrcKeys |-> MaxNum])}}
    \cup {WithNutriments(FullHeader, JObject(m)) : m \in FormatMaps}

-----------------------------------------------------------------------------
(* API client *)

\* requests.exceptions.RequestException and the subclasses requests.get and
\* raise_for_status raise: a non-2xx status, and the transport failures
RequestExceptions == {"HTTPError", "ConnectionError", "Timeout"}

\* faulty variant: a failed GET is sent a second time
http_get_retry(endpoint, term, resp) ==
    [requests |-> IF resp.kind = "ok"
                  THEN << [endpoint |-> endpoint, term |-> term] >>
                  ELSE << [endpoint |-> endpoint, term |-> term],
                          [endpoint |-> endpoint, term |-> term] >>,
     ret |-> IF resp.kind = "ok" THEN Return(resp.body) ELSE Raise(resp.kind)]

\* what the one GET of a call does: resp.kind is "ok" (a 2xx status, the
\* JSON body in resp.body) or the exception requests raises
http_get(endpoint, term, resp) ==
    [requests |-> << [endpoint |-> endpoint, term |-> term] >>,
     ret |-> IF resp.kind = "ok" THEN Return(resp.body) ELSE Raise(resp.kind)]

\* get_product_by_barcode(barcode)
get_product_by_barcode(barcode, resp) == http_get("/api/v2/product/", barcode, resp)

\* search_products(query, page_size=10)
search_products(query, resp) == http_get("/api/v2/search", query, resp)

-----------------------------------------------------------------------------
(* MainWindow *)

\* the two entries of mode_combo: "По штрихкоду", "По названию"
ModeBarcode == "Po shtrihkodu"

ModeName == "Po nazvaniyu"

\* QMessageBox.warning(self, "Ошибка", "Введите запрос.")
WarnEmptyQuery == [icon |-> "warning", title |-> "Oshibka", text |-> "Vvedite zapros."]

\* QMessageBox.information(self, "Результат", "Продукт не найден.")
InfoProductNotFound ==
    [icon |-> "information", title |-> "Rezultat", text |-> "Produkt ne najden."]

\* QMessageBox.information(self, "Результат", "Ничего не найдено.")
InfoNothingFound ==
    [icon |-> "information", title |-> "Rezultat", text |-> "Nichego ne najdeno."]

\* QMessageBox.critical(self, "Ошибка сети", f"Не удалось выполнить запрос:\n{e}")
CriticalNetwork(e) == [icon |-> "critical", title |-> "Oshibka seti", text |-> e]

\* QMessageBox.critical(self, "Ошибка", f"Произошла ошибка:\n{e}")
CriticalOther(e) == [icon |-> "critical", title |-> "Oshibka", text |-> e]

\* str.strip() on a sequence of characters
RECURSIVE LStrip(_)
LStrip(s) == IF s /= << >> /\ Head(s) = " " THEN LStrip(Tail(s)) ELSE s

RECURSIVE RStrip(_)
RStrip(s) ==
    IF s /= << >> /\ s[Len(s)] = " " THEN RStrip(SubSeq(s, 1, Len(s) - 1)) ELSE s

Strip(s) == RStrip(LStrip(s))

\* a table cell no QTableWidgetItem was set in
NoItem == "<no item>"

NoItemsRow == [code |-> NoItem, name |-> NoItem, brand |-> NoItem, kcal |-> NoItem]

\* the four items search_by_name sets in the row of product p
RowOf(p) ==
    LET nutr == extract_kcal(NutrimentsOf(p)).value
    IN  [code |-> OrStr(GetStr(p, "code"), ""),
         name |-> OrStr(GetStr(p, "product_name"), ""),
         brand |-> OrStr(GetStr(p, "brands"), ""),
         kcal |-> IF "kcal_100g" \in DOMAIN nutr THEN Str(nutr["kcal_100g"]) ELSE ""]

\* the rows after setRowCount(len(products)) and the filling loop, which
\* stops at the first product extract_kcal raises on
FilledRows(products) ==
    [row \in 1 .. Len(products) |->
        IF \E r \in 1 .. row : Raised(extract_kcal(NutrimentsOf(products[r])))
        THEN NoItemsRow
        ELSE RowOf(products[row])]

\* not x, for a decoded JSON object or array or None
Falsy(x) == x = JNull \/ x.items = << >>

\* what a handler leaves behind: the widgets, the attribute, the calls it made
\* and the exception it lets through ("" when none)
Outcome(det, tab, prods, reqs, dlgs, calls, exc) ==
    [details |-> det, table |-> tab, products |-> prods, requests |-> reqs,
     dialogs |-> dlgs, format_calls |-> calls, exc |-> exc]

\* search_by_barcode(barcode), the response of the GET being resp
search_by_barcode(self_products, barcode, resp) ==
    LET got == get_product_by_barcode(barcode, resp)
    IN  IF Raised(got.ret)
        THEN Outcome(<< >>, << >>, self_products, got.requests, << >>, << >>, got.ret.exc)
        ELSE LET data == got.ret.value
                 product == IF "product" \in DOMAIN data THEN data["product"] ELSE JNull
             IN  IF Falsy(product)
                 THEN Outcome(<< >>, << >>, self_products, got.requests,
                              << InfoProductNotFound >>, << >>, "")
                 ELSE LET details == format_product_details(product.items)
                      IN  IF Raised(details)
                          THEN Outcome(<< >>, << >>, self_products, got.requests, << >>,
                                       << product.items >>, details.exc)
                          ELSE Outcome(details.value, << >>, self_products, got.requests,
                                       << >>, << product.items >>, "")

\* the exception the filling loop lets through ("" when none)
FillException(products) ==
    IF \E r \in 1 .. Len(products) : Raised(extract_kcal(NutrimentsOf(products[r])))
    THEN "AttributeError"
    ELSE ""

\* faulty variant: self.current_products is not reset before the request
search_by_name_keeps_products(self_products, name, resp) ==
    LET got == search_products(name, resp)
    IN  IF Raised(got.ret)
        THEN Outcome(<< >>, << >>, self_products, got.requests, << >>, << >>,
                     got.ret.exc)
        ELSE LET data == got.ret.value
                 products == IF "products" \in DOMAIN data THEN data["products"]
                             ELSE JArray(<< >>)
             IN  IF Falsy(products)
                 THEN Outcome(<< >>, << >>, self_products, got.requests,
                              << InfoNothingFound >>, << >>, "")
                 ELSE Outcome(<< >>, FilledRows(products.items), products.items,
                              got.requests, << >>, << >>, FillException(products.items))

\* search_by_name(name), the response of the GET being resp; self_products is
\* self.current_products on entry, which is reset before the request
search_by_name(self_products, name, resp) ==
    LET got == search_products(name, resp)
    IN  IF Raised(got.ret)
        THEN Outcome(<< >>, << >>, << >>, got.requests, << >>, << >>, got.ret.exc)
        ELSE LET data == got.ret.value
                 products == IF "products" \in DOMAIN data THEN data["products"]
                             ELSE JArray(<< >>)
             IN  IF Falsy(products)
                 THEN Outcome(<< >>, << >>, << >>, got.requests,
                              << InfoNothingFound >>, << >>, "")
                 ELSE Outcome(<< >>, FilledRows(products.items), products.items,
                              got.requests, << >>, << >>, FillException(products.items))

\* the except clauses of on_search_clicked
ExceptDialogs(exc) ==
    IF exc = "" THEN << >>
    ELSE IF exc \in RequestExceptions THEN << CriticalNetwork(exc) >>
    ELSE << CriticalOther(exc) >>

-----------------------------------------------------------------------------
(* Inputs of the window: the products and responses the API may send *)

\* a product with every field, one with no nutriments, one whose calories are
\* 0 under the primary spelling, and one whose nutriments is null
GuiProducts ==
    { WithNutriments(FullHeader, JObject([k \in SrcKeys |-> MaxNum])),
      [code |-> HdrText("code")],
      WithNutriments([product_name |-> HdrText("product_name")],
                     JObject([k \in EnergyKeys |->
                                IF k = "energy-kcal_100g" THEN 0 ELSE MaxNum])),
      WithNutriments([code |-> HdrText("code")], JNull) }

ProductLists == UNION {[1 .. n -> GuiProducts] : n \in 1 .. MaxProducts}

FailedResponses == {[kind |-> e] : e \in RequestExceptions}

\* the responses to a lookup: a failure, or a body whose "product" is absent,
\* null, {} or a product
LookupResponses ==
    FailedResponses
    \cup {[kind |-> "ok", body |-> EmptyDict]}
    \cup {[kind |-> "ok", body |-> [product |-> v]] :
            v \in {JNull, JObject(EmptyDict)} \cup {JObject(p) : p \in GuiProducts}}

\* the responses to a search: a failure, or a body whose "products" is absent,
\* null, [] or a list of products
SearchResponses ==
    FailedResponses
    \cup {[kind |-> "ok", body |-> EmptyDict]}
    \cup {[kind |-> "ok", body |-> [products |-> v]] :
            v \in {JNull, JArray(<< >>)} \cup {JArray(l) : l \in ProductLists}}

\* what the user may type in the query box
Queries == UNION {[1 .. n -> {" ", "7"}] : n \in 0 .. MaxQueryLen}

-----------------------------------------------------------------------------
(* Spec: the window *)

\* MainWindow.__init__, which ends with on_mode_changed(0)
Init ==
    /\ mode = ModeBarcode
    /\ query_text = << >>
    /\ current_products = << >>
    /\ table = << >>
    /\ table_visible = FALSE
    /\ details_text = << >>
    /\ dialogs = << >>
    /\ requests = << >>
    /\ format_calls = << >>
    /\ last = [handler |-> "__init__"]
    /\ alive = TRUE
    /\ fn_arg = << >>
    /\ fn_ret = Pending

\* the user edits query_edit
EditQuery ==
    /\ alive
    /\ \E q \in Queries : q /= query_text /\ query_text' = q
    /\ UNCHANGED <<mode, current_products, table, table_visible, details_text,
                   dialogs, requests, format_calls, last, alive, fn_vars>>

\* the user picks the other entry of mode_combo: on_mode_changed
OnModeChanged ==
    /\ alive
    /\ mode' = IF mode = ModeBarcode THEN ModeName ELSE ModeBarcode
    /\ details_text' = << >>
    /\ table' = << >>
    /\ table_visible' = (mode' /= ModeBarcode)
    /\ dialogs' = << >>
    /\ requests' = << >>
    /\ format_calls' = << >>
    /\ last' = [handler |-> "on_mode_changed"]
    /\ UNCHANGED <<query_text, current_products, alive, fn_vars>>

\* the user clicks search_button: on_search_clicked
OnSearchClicked ==
    /\ alive
    /\ \E resp \in (IF mode = ModeBarcode THEN LookupResponses ELSE SearchResponses) :
        LET query == Strip(query_text)
        IN  IF query = << >>
            THEN /\ dialogs' = << WarnEmptyQuery >>
                 /\ requests' = << >>
                 /\ format_calls' = << >>
                 /\ last' = [handler |-> "on_search_clicked", query |-> query]
                 /\ UNCHANGED <<details_text, table, current_products>>
            ELSE \E out \in {IF mode = ModeBarcode
                             THEN search_by_barcode(current_products, query, resp)
                             ELSE search_by_name(current_products, query, resp)} :
                     /\ details_text' = out.details
                     /\ table' = out.table
                     /\ current_products' = out.products
                     /\ requests' = out.requests
                     /\ format_calls' = out.format_calls
                     /\ dialogs' = out.dialogs \o ExceptDialogs(out.exc)
                     /\ last' = [handler |-> "on_search_clicked", query |-> query,
                                 mode |-> mode, resp |-> resp,
                                 had_products |-> current_products /= << >>]
    /\ UNCHANGED <<mode, query_text, table_visible, alive, fn_vars>>

\* the user double-clicks a cell of the table: on_table_double_clicked(row, column).
\* Rows are numbered from 1 here, from 0 in the source.  No try surrounds the
\* slot: an exception that escapes it reaches Qt, which aborts the program.
OnTableDoubleClicked ==
    /\ alive
    /\ table_visible
    /\ \E row \in 1 .. Len(table) :
        /\ last' = [handler |-> "on_table_double_clicked", row |-> row]
        /\ dialogs' = << >>
        /\ requests' = << >>
        /\ IF row <= Len(current_products)
           THEN LET details == format_product_details(current_products[row])
                IN  /\ format_calls' = << current_products[row] >>
                    /\ IF Raised(details)
                       THEN alive' = FALSE /\ UNCHANGED details_text
                       ELSE details_text' = details.value /\ UNCHANGED alive
           ELSE format_calls' = << >> /\ UNCHANGED <<details_text, alive>>
    /\ UNCHANGED <<mode, query_text, current_products, table, table_visible, fn_vars>>

Next == EditQuery \/ OnModeChanged \/ OnSearchClicked \/ OnTableDoubleClicked

Spec == Init /\ [][Next]_vars

-----------------------------------------------------------------------------
(* The window at rest, as the function specifications leave it *)

GuiIdle ==
    /\ mode = ModeBarcode
    /\ query_text = << >>
    /\ current_products = << >>
    /\ table = << >>
    /\ table_visible = FALSE
    /\ details_text = << >>
    /\ dialogs = << >>
    /\ requests = << >>
    /\ format_calls = << >>
    /\ last = [handler |-> "__init__"]
    /\ alive = TRUE

-----------------------------------------------------------------------------
(* ExtractSpec: extract_kcal applied to every nutrient map *)

ExtractInit ==
    /\ GuiIdle
    /\ fn_arg \in {JObject(m) : m \in NutrimentMaps}
    /\ fn_ret = Pending

CallExtractKcal ==
    /\ fn_ret = Pending
    /\ fn_ret' = extract_kcal(fn_arg)
    /\ UNCHANGED <<fn_arg, gui_vars>>

ExtractNext == CallExtractKcal

ExtractSpec == ExtractInit /\ [][ExtractNext]_vars

-----------------------------------------------------------------------------
(* FormatSpec: format_product_details applied to every product *)

FormatInit ==
    /\ GuiIdle
    /\ fn_arg \in Products
    /\ fn_ret = Pending

CallFormatProductDetails ==
    /\ fn_ret = Pending
    /\ fn_ret' = format_product_details(fn_arg)
    /\ UNCHANGED <<fn_arg, gui_vars>>

FormatNext == CallFormatProductDetails

FormatSpec == FormatInit /\ [][FormatNext]_vars

-----------------------------------------------------------------------------
(* Properties of extract_kcal (ExtractSpec) *)

\* the source keys an output key may take its value from
SourcesOf(k) == IF k = "kcal_100g" THEN EnergyKeys ELSE {SourceKey(k)}

\* C1: extract_kcal's result holds an output key only if a source key of it
\* is present in the input with a non-null value; it never maps a key to
\* null, and a zero in it is the value of a source key in the input.
C1_ExtractOmitsMissing ==
    Returned(fn_ret) =>
        LET m == fn_arg.items
            out == fn_ret.value
        IN  /\ DOMAIN out \subseteq OutKeys
            /\ \A k \in DOMAIN out :
                /\ out[k] /= None
                /\ \E s \in SourcesOf(k) : s \in DOMAIN m /\ m[s] /= None
                /\ \E s \in SourcesOf(k) : s \in DOMAIN m /\ m[s] = out[k]

\* a map with a key missing, a key null and a key zero: only the zero is kept
C1_Witness ==
    /\ Returned(fn_ret)
    /\ "proteins_100g" \notin DOMAIN fn_arg.items
    /\ "fat_100g" \in DOMAIN fn_arg.items
    /\ fn_arg.items["fat_100g"] = None
    /\ "carbohydrates_100g" \in DOMAIN fn_arg.items
    /\ fn_arg.items["carbohydrates_100g"] = 0
    /\ DOMAIN fn_ret.value = {"carbs_100g"}
    /\ fn_ret.value["carbs_100g"] = 0

\* C2: whenever "energy-kcal_100g" is present with a non-null number (0
\* included), kcal_100g is that number and "energy-kcal_value" is ignored.
C2_PrimaryEnergyWins ==
    Returned(fn_ret) =>
        LET m == fn_arg.items
            out == fn_ret.value
        IN  ("energy-kcal_100g" \in DOMAIN m /\ m["energy-kcal_100g"] /= None)
                => /\ "kcal_100g" \in DOMAIN out
                   /\ out["kcal_100g"] = m["energy-kcal_100g"]

-----------------------------------------------------------------------------
(* Properties of format_product_details (FormatSpec) *)

Range(s) == {s[i] : i \in 1 .. Len(s)}

\* the nutrient summary of the product under check
SummaryOf(product) == extract_kcal(NutrimentsOf(product)).value

\* the lines that can show output key k
LinesTable == [k \in OutKeys |-> {Label(k) \o Str(v) : v \in Nums}]

LinesFor(k) == LinesTable[k]

Per100gKeys == {"kcal_100g", "protein_100g", "fat_100g", "carbs_100g"}

PerServingKeys == OutKeys \ Per100gKeys

\* the order the spec fixes: calories, protein, fat, carbs, per 100 g first
FixedOrder == << "kcal_100g", "protein_100g", "fat_100g", "carbs_100g",
                 "kcal_serving", "protein_serving", "fat_serving", "carbs_serving" >>

\* where the nutrient part of a block starts
FirstNutrientLine == Len(HeaderLines(EmptyDict)) + 1

\* C3: format_product_details returns a text block for every product whose
\* fields are each absent, null or present, and raises nothing; an absent or
\* null header field is rendered as the dash.
C3_FormatNeverRaises ==
    fn_ret /= Pending =>
        /\ Returned(fn_ret)
        /\ \A k \in HdrKeys :
            (k \notin DOMAIN fn_arg \/ fn_arg[k] = NoneStr)
                => \E i \in 1 .. 5 : fn_ret.value[i] \in
                        {"Nazvanie: " \o Dash, "Brend: " \o Dash, "Shtrihkod: " \o Dash,
                         "Upakovka: " \o Dash, "Porciya: " \o Dash}

\* C4: an empty summary gives a block ending in the one "no data" line, with
\* no nutrient line and no per-serving header; a non-empty summary never
\* gives the "no data" line.
C4_NoDataLine ==
    Returned(fn_ret) =>
        LET nutr == SummaryOf(fn_arg)
            lines == fn_ret.value
        IN  /\ DOMAIN nutr = {} =>
                /\ lines[Len(lines)] = NoDataLine
                /\ Cardinality({i \in 1 .. Len(lines) : lines[i] = NoDataLine}) = 1
                /\ \A k \in OutKeys : Range(lines) \cap LinesFor(k) = {}
                /\ ServingHeader \notin Range(lines)
            /\ DOMAIN nutr /= {} => NoDataLine \notin Range(lines)

\* a nutrient map that is not empty and yet yields an empty summary
C4_Witness ==
    /\ Returned(fn_ret)
    /\ "nutriments" \in DOMAIN fn_arg
    /\ DOMAIN fn_arg["nutriments"].items = {"energy-kcal_100g", "energy-kcal_value"}
    /\ DOMAIN SummaryOf(fn_arg) = {}
    /\ fn_ret.value[Len(fn_ret.value)] = NoDataLine

\* C5: the block holds the blank separator followed by the per-serving header
\* exactly when the summary has a per-serving key; without one, neither the
\* header nor a blank line follows the nutrients heading.
C5_ServingSection ==
    Returned(fn_ret) =>
        LET nutr == SummaryOf(fn_arg)
            lines == fn_ret.value
            hasServing == DOMAIN nutr \cap PerServingKeys /= {}
        IN  /\ hasServing <=>
                \E i \in FirstNutrientLine .. Len(lines) - 1 :
                    lines[i] = "" /\ lines[i + 1] = ServingHeader
            /\ hasServing =>
                /\ Cardinality({i \in 1 .. Len(lines) : lines[i] = ServingHeader}) = 1
                /\ \A k \in PerServingKeys : \A i \in 1 .. Len(lines) :
                    lines[i] \in LinesFor(k) =>
                        \E j \in 1 .. i - 1 : lines[j] = ServingHeader
            /\ ~hasServing =>
                /\ ServingHeader \notin Range(lines)
                /\ \A i \in FirstNutrientLine .. Len(lines) : lines[i] /= ""
                /\ \A k \in PerServingKeys : Range(lines) \cap LinesFor(k) = {}

\* a product with per-100g fields only
C5_Witness ==
    /\ Returned(fn_ret)
    /\ DOMAIN SummaryOf(fn_arg) = Per100gKeys
    /\ Len(fn_ret.value) = FirstNutrientLine + 3

\* C6: for a non-empty summary the nutrient lines are one line per present
\* key, showing its value, none for an absent key, in the fixed order, the
\* per-100g lines before the per-serving ones, and nothing else but the
\* per-serving separator and header.
C6_NutrientLinesInOrder ==
    (Returned(fn_ret) /\ DOMAIN SummaryOf(fn_arg) /= {}) =>
        LET nutr == SummaryOf(fn_arg)
            lines == fn_ret.value
            body == FirstNutrientLine .. Len(lines)
            at == [k \in OutKeys |-> {i \in body : lines[i] \in LinesFor(k)}]
        IN  /\ \A k \in OutKeys :
                IF k \in DOMAIN nutr
                THEN /\ Cardinality(at[k]) = 1
                     /\ \A i \in at[k] : lines[i] = Label(k) \o Str(nutr[k])
                ELSE at[k] = {}
            /\ \A a, b \in 1 .. Len(FixedOrder) :
                a < b => \A i \in at[FixedOrder[a]], j \in at[FixedOrder[b]] : i < j
            /\ \A i \in body :
                \/ \E k \in OutKeys : i \in at[k]
                \/ lines[i] \in {"", ServingHeader}

\* a product with all eight fields, the zero calories among them coming from
\* the fallback spelling
C6_Witness ==
    /\ Returned(fn_ret)
    /\ DOMAIN SummaryOf(fn_arg) = OutKeys
    /\ SummaryOf(fn_arg)["protein_100g"] /= SummaryOf(fn_arg)["fat_100g"]
    /\ Len(fn_ret.value) = FirstNutrientLine + 9

-----------------------------------------------------------------------------
(* Properties of the window (Spec) *)

\* the handler that ran last was a search with a non-blank query in mode m
SearchedIn(m) ==
    /\ last.handler = "on_search_clicked"
    /\ last.query /= << >>
    /\ last.mode = m

\* data.get("product") of the lookup answered last
LastProduct ==
    IF "product" \in DOMAIN last.resp.body THEN last.resp.body["product"] ELSE JNull

\* data.get("products", []) of the search answered last
LastProducts ==
    IF "products" \in DOMAIN last.resp.body THEN last.resp.body["products"]
    ELSE JArray(<< >>)

\* C7: after a barcode lookup whose response is successful, a body with no
\* product (or an empty or null one) gives the not-found notice, no call of
\* format_product_details and an empty detail pane; a non-empty product gives
\* a detail pane showing format_product_details(product).
C7_BarcodeLookupOutcome ==
    (SearchedIn(ModeBarcode) /\ last.resp.kind = "ok") =>
        IF Falsy(LastProduct)
        THEN /\ dialogs = << InfoProductNotFound >>
             /\ format_calls = << >>
             /\ details_text = << >>
        ELSE /\ Returned(format_product_details(LastProduct.items))
             /\ details_text = format_product_details(LastProduct.items).value

\* C8: after a text search whose successful response has an empty or absent
\* products array, current_products is empty, the table has no rows and no
\* error dialog was raised (the one dialog is the "nothing found" notice).
C8_EmptySearchIsNotAnError ==
    (SearchedIn(ModeName) /\ last.resp.kind = "ok" /\ Falsy(LastProducts)) =>
        /\ current_products = << >>
        /\ table = << >>
        /\ dialogs = << InfoNothingFound >>
        /\ \A i \in 1 .. Len(dialogs) : dialogs[i].icon \notin {"critical", "warning"}

\* an empty search run while the list of an earlier search was held
C8_Witness ==
    /\ SearchedIn(ModeName)
    /\ last.resp.kind = "ok"
    /\ last.resp.body = [products |-> JArray(<< >>)]
    /\ last.had_products
    /\ current_products = << >>

\* C9: a search action issues at most one HTTP request, none with a blank
\* query; when the request fails, one error dialog carries the failure, no
\* second request is made and neither details nor rows are shown.
C9_OneRequestNoRetry ==
    last.handler = "on_search_clicked" =>
        /\ Len(requests) <= 1
        /\ last.query = << >> => requests = << >>
        /\ (last.query /= << >> /\ last.resp.kind \in RequestExceptions) =>
            /\ Len(requests) = 1
            /\ dialogs = << CriticalNetwork(last.resp.kind) >>
            /\ details_text = << >>
            /\ table = << >>
            /\ format_calls = << >>

\* a text search that fails while the list of an earlier search was held
C9_Witness ==
    /\ SearchedIn(ModeName)
    /\ last.resp.kind = "Timeout"
    /\ last.had_products
    /\ Len(requests) = 1
    /\ Len(dialogs) = 1

\* C10: every row of the table shows the product current_products holds at
\* its index, and a double-click on a row puts the details of that product
\* in the detail pane without a request.
C10_RowsMatchProducts ==
    /\ \A i \in 1 .. Len(table) :
        /\ i <= Len(current_products)
        /\ Returned(extract_kcal(NutrimentsOf(current_products[i])))
        /\ table[i] = RowOf(current_products[i])
    /\ last.handler = "on_table_double_clicked" =>
        /\ requests = << >>
        /\ last.row <= Len(current_products)
        /\ Returned(format_product_details(current_products[last.row]))
        /\ details_text = format_product_details(current_products[last.row]).value

====
